---------------------------- MODULE Spec2Model ----------------------------
(***************************************************************************)
(* Model of dashboard.py: a Dash application over a table of job listings. *)
(* The module body loads the table, derives ParsedExperience and the skill *)
(* map; two callbacks (update_table, update_visualizations) filter the     *)
(* table by the selected states and cities and aggregate the result.       *)
(*                                                                         *)
(* Text cells whose characters matter (Experience, Skills) are sequences   *)
(* of one-character strings; cells that are only compared (Title, Company, *)
(* City, State) are atomic strings.  A missing cell (pandas NaN) is NaN    *)
(* for atomic cells and NaNText for character cells.  A float is Float(n), *)
(* a missing float is NaNFloat.                                            *)
(***************************************************************************)
EXTENDS Integers, Sequences, FiniteSets, TLC

VARIABLES
    phase,          \* "csv": read_csv done (line 14); "running": module body done; "crashed"
    df,             \* the base table: a sequence of rows (records)
    skills_map_df,  \* the skill map table (line 44), a set of records
    resp,           \* the latest callback response delivered to the page
    request,        \* per concurrent execution: the callback and selection it serves
    pc,             \* per concurrent execution: the line it is about to run
    frame,          \* per concurrent execution: the local variables of the call
    response        \* per concurrent execution: what the call returned

vars == <<phase, df, skills_map_df, resp, request, pc, frame, response>>

----------------------------------------------------------------------------
(* Bounds of the model *)

MaxRows == 2        \* rows of the base table in Spec
MaxExpLen == 3      \* characters of an Experience cell in SpecParse
MaxSkillLen == 3    \* characters of a Skills cell in SpecPivot
NProcs == 2         \* concurrent callback executions in SpecConc

----------------------------------------------------------------------------
(* Missing values *)

NaN == "NaN"
NaNText == <<"NaN">>
NaNFloat == [nan |-> TRUE, value |-> 0]
Float(n) == [nan |-> FALSE, value |-> n]

\* pd.isna, per kind of cell
isna(v) == v = NaN
isnaText(v) == v = NaNText

----------------------------------------------------------------------------
(* Python string functions, on sequences of characters *)

IsSpace(c) == c = " "
IsDigit(c) == c \in {"3", "5"}
DigitVal(c) == IF c = "3" THEN 3 ELSE 5

Contains(s, c) == \E i \in 1..Len(s) : s[i] = c

\* str.split(sep): the list of the parts between the separators; never empty
RECURSIVE split(_, _)
split(s, sep) ==
    IF ~Contains(s, sep) THEN <<s>>
    ELSE LET i == CHOOSE k \in 1..Len(s) :
                      s[k] = sep /\ \A j \in 1..(k - 1) : s[j] # sep
         IN  <<SubSeq(s, 1, i - 1)>> \o split(SubSeq(s, i + 1, Len(s)), sep)

RECURSIVE lstrip(_)
lstrip(s) == IF s # <<>> /\ IsSpace(Head(s)) THEN lstrip(Tail(s)) ELSE s

RECURSIVE rstrip(_)
rstrip(s) ==
    IF s # <<>> /\ IsSpace(s[Len(s)]) THEN rstrip(SubSeq(s, 1, Len(s) - 1)) ELSE s

\* fault: only the leading blanks are removed (str.lstrip)
stripLeft(s) == lstrip(s)

\* str.strip()
strip(s) == rstrip(lstrip(s))

RECURSIVE DigitsVal(_)
DigitsVal(s) ==
    IF s = <<>> THEN 0 ELSE 10 * DigitsVal(SubSeq(s, 1, Len(s) - 1)) + DigitVal(s[Len(s)])

\* the outcome of a call that may raise
Raised == [raised |-> TRUE, value |-> <<>>]
Returned(v) == [raised |-> FALSE, value |-> v]

\* float(s) on the characters of the model: surrounding whitespace is
\* ignored, then an optional sign, then one or more digits; anything else
\* raises ValueError
float(s) ==
    LET t == strip(s)
        neg == t # <<>> /\ Head(t) = "-"
        d == IF neg THEN Tail(t) ELSE t
    IN  IF d # <<>> /\ \A i \in 1..Len(d) : IsDigit(d[i])
        THEN Returned(Float(IF neg THEN 0 - DigitsVal(d) ELSE DigitsVal(d)))
        ELSE Raised

\* fault: the range form is not handled, the whole cell is parsed
parse_experience_tryWhole(val) == float(val)

\* the body of the try block of parse_experience (lines 21-23)
parse_experience_try(val) ==
    IF Contains(val, "-") THEN float(split(val, "-")[1]) ELSE float(val)

\* parse_experience (lines 17-25); the bare except turns any raise into NaN
parse_experience(val) ==
    IF isnaText(val) THEN NaNFloat
    ELSE LET r == parse_experience_try(val)
         IN  IF r.raised THEN NaNFloat ELSE r.value

----------------------------------------------------------------------------
(* Dataframe operations, on sequences of rows *)

Rows(d) == 1..Len(d)

\* DataFrame.copy()
copy(d) == d

\* fault: the cell is compared with the first selected value only
isinFirst(v, values) == values # <<>> /\ values[1] = v

\* Series.isin(values): membership of one cell in the list of values
isin(v, values) == \E k \in 1..Len(values) : values[k] = v

\* d[mask]: boolean indexing keeps, in order, the rows whose mask is True
RECURSIVE BoolIndex(_, _)
BoolIndex(d, mask) ==
    IF d = <<>> THEN <<>>
    ELSE LET rest == BoolIndex(Tail(d), Tail(mask))
         IN  IF Head(mask) THEN <<Head(d)>> \o rest ELSE rest

\* fault: the mask is one row out of step with the table it indexes
FilterIsinShifted(d, col, values) ==
    BoolIndex(d, [i \in Rows(d) |-> i < Len(d) /\ isin(d[i + 1][col], values)])

\* d[d[col].isin(values)]
FilterIsin(d, col, values) ==
    BoolIndex(d, [i \in Rows(d) |-> isin(d[i][col], values)])

\* fault: only None counts as no selection (`is not None`)
TruthyNotNone(sel) == ~sel.isNone

\* the truth value of a selection: None and the empty list are false
Truthy(sel) == ~sel.isNone /\ Len(sel.items) > 0

\* lines 153-154 / 171-172 (col = "State") and 155-156 / 173-174 (col = "City")
FilterStep(filtered_df, col, sel) ==
    IF Truthy(sel) THEN FilterIsin(filtered_df, col, sel.items) ELSE filtered_df

\* DataFrame.to_dict('records'): one dict per row, holding every column
to_dict_records(d) == [i \in Rows(d) |-> d[i]]

\* fault: missing values are counted as a category (dropna=False)
value_countsKeepNa(d, col) ==
    { [index |-> v, count |-> Cardinality({i \in Rows(d) : d[i][col] = v})] :
        v \in {d[i][col] : i \in Rows(d)} }

\* Series.value_counts().reset_index(): one row per distinct non-missing
\* value with the number of rows holding it; the order of the rows is left
\* to the library, so the table is a set of rows
value_counts(d, col) ==
    { [index |-> v, count |-> Cardinality({i \in Rows(d) : d[i][col] = v})] :
        v \in {d[i][col] : i \in {j \in Rows(d) : ~isna(d[j][col])}} }

\* t.columns = [a, 'Count'] (lines 183, 188, 193)
SetColumns(t, a) ==
    { [c \in {a, "Count"} |-> IF c = a THEN r.index ELSE r.count] : r \in t }

\* d[['City', 'Skills']].dropna() (lines 37, 195)
CitySkills(d) ==
    LET proj == [i \in Rows(d) |-> [City |-> d[i].City, Skills |-> d[i].Skills]]
    IN  BoolIndex(proj, [i \in Rows(d) |-> ~isna(proj[i].City) /\ ~isnaText(proj[i].Skills)])

\* .str.split(','), .explode('Skills'), .str.strip() (lines 38-40, 196-198):
\* one row per part of the Skills cell, the part stripped
RECURSIVE Explode(_)
Explode(d) ==
    IF d = <<>> THEN <<>>
    ELSE LET parts == split(Head(d).Skills, ",")
         IN  [k \in 1..Len(parts) |-> [City |-> Head(d).City, Skills |-> strip(parts[k])]]
             \o Explode(Tail(d))

\* groupby(['City', 'Skills']).size().reset_index(name='Count') (line 199)
GroupSize(e) ==
    { [City |-> g[1], Skills |-> g[2],
       Count |-> Cardinality({i \in Rows(e) : e[i].City = g[1] /\ e[i].Skills = g[2]})] :
        g \in {<<e[i].City, e[i].Skills>> : i \in Rows(e)} }

\* fault: the pivot is built from the base table, as the skill map is
SkillPivotOfBase(filtered_df) == GroupSize(Explode(CitySkills(df)))

\* lines 195-199
SkillPivot(filtered_df) == GroupSize(Explode(CitySkills(filtered_df)))

\* groupby('City')['Skills'].nunique().reset_index(name='UniqueSkills') (line 41)
GroupNunique(e) ==
    { [City |-> c,
       UniqueSkills |-> Cardinality({e[i].Skills : i \in {j \in Rows(e) : e[j].City = c}})] :
        c \in {e[i].City : i \in Rows(e)} }

\* the six cities of city_coords (lines 30-34), degrees times 10^4
city_coords ==
    { [City |-> "Sydney",    Latitude |-> -338698, Longitude |-> 1512083],
      [City |-> "Melbourne", Latitude |-> -378142, Longitude |-> 1449632],
      [City |-> "Brisbane",  Latitude |-> -274690, Longitude |-> 1530235],
      [City |-> "Perth",     Latitude |-> -319559, Longitude |-> 1158606],
      [City |-> "Adelaide",  Latitude |-> -349282, Longitude |-> 1385999],
      [City |-> "Canberra",  Latitude |-> -352976, Longitude |-> 1491013] }

\* pd.merge(skill_counts, city_coords, on='City', how='inner') (line 44)
MergeInner(counts, coords) ==
    { [City |-> a.City, UniqueSkills |-> a.UniqueSkills,
       Latitude |-> b.Latitude, Longitude |-> b.Longitude] :
        <<a, b>> \in {ab \in counts \X coords : ab[1].City = ab[2].City} }

\* lines 37-44
SkillsMap(d) == MergeInner(GroupNunique(Explode(CitySkills(d))), city_coords)

\* df['ParsedExperience'] = df['Experience'].apply(parse_experience) (line 27)
WithParsedExperience(d) ==
    [i \in Rows(d) |->
        [c \in DOMAIN d[i] \cup {"ParsedExperience"} |->
            IF c = "ParsedExperience" THEN parse_experience(d[i].Experience) ELSE d[i][c]]]

\* read_csv gives a column the object dtype when the table is empty or some
\* cell of the column holds text, and a float dtype when every cell is
\* missing; a filtered copy keeps the dtype.  The .str accessor (lines 38,
\* 196) raises on a float column.
ObjectDtype(d, col) == d = <<>> \/ \E i \in Rows(d) : ~isnaText(d[i][col])

\* The module body raises, and the server never starts, when the .str
\* accessor of line 38 raises or when State or City has no mode (lines
\* 105-106: mode()[0] of a column without a value).
StartupOk(d) ==
    /\ ObjectDtype(d, "Skills")
    /\ \E i \in Rows(d) : ~isna(d[i].State)
    /\ \E i \in Rows(d) : ~isna(d[i].City)

----------------------------------------------------------------------------
(* The two callbacks as functions of the base table and the selection *)

\* lines 152-156 and 170-174
Filtered(d, selected_states, selected_cities) ==
    FilterStep(FilterStep(copy(d), "State", selected_states), "City", selected_cities)

\* the return value of update_table (lines 152-157)
update_table_ret(d, selected_states, selected_cities) ==
    to_dict_records(Filtered(d, selected_states, selected_cities))

\* px.histogram(filtered_df, x='ParsedExperience', nbins=20) (line 178):
\* the figure carries the column; the renderer bins it
ExpHistogram(filtered_df) ==
    [x |-> [i \in Rows(filtered_df) |-> filtered_df[i].ParsedExperience], nbins |-> 20]

\* lines 182-183, 187-188, 192-193
CountBy(filtered_df, col) == SetColumns(value_counts(filtered_df, col), col)

\* the tables behind the five figures update_visualizations returns (lines 170-208)
update_visualizations_ret(d, selected_states, selected_cities) ==
    LET filtered_df == Filtered(d, selected_states, selected_cities)
    IN  IF ~ObjectDtype(d, "Skills") THEN Raised ELSE Returned(
        [exp_dist       |-> ExpHistogram(filtered_df),
         city_counts    |-> CountBy(filtered_df, "City"),
         state_counts   |-> CountBy(filtered_df, "State"),
         company_counts |-> CountBy(filtered_df, "Company"),
         pivot_treemap  |-> SkillPivot(filtered_df)])

----------------------------------------------------------------------------
(* Inputs *)

None == [isNone |-> TRUE, items |-> <<>>]
List(items) == [isNone |-> FALSE, items |-> items]

\* the values a multi-select dropdown can hand to a callback
StateSelections == {None, List(<<>>), List(<<"NSW">>), List(<<"NSW", "WA">>)}
CitySelections == {None, List(<<>>), List(<<"Perth">>)}

Text(n, alphabet) == UNION {[1..k -> alphabet] : k \in 0..n}

Row(title, company, city, state, experience, skills) ==
    [Title |-> title, Company |-> company, City |-> city, State |-> state,
     Experience |-> experience, Skills |-> skills]

\* rows of the csv file in Spec
SampleRows ==
    { Row("Dev", "Acme", ci, st, <<"3", "-", "5">>, <<"a", ",", " ", "b">>) :
        ci \in {"Sydney", "Perth", NaN}, st \in {"NSW", "WA", NaN} }
    \cup { Row("QA", "Globex", "Sydney", "NSW", NaNText, NaNText),
           Row("QA", "Globex", "Perth", "WA", <<"x">>, <<"b", ",", "a">>) }

Tables(rows, n) == UNION {[1..k -> rows] : k \in 0..n}

\* cells of the Experience column in SpecParse
ExperienceCells == Text(MaxExpLen, {"3", "5", "-", "x", " "}) \cup {NaNText}

\* cells of the Skills column in SpecPivot
SkillsCells == Text(MaxSkillLen, {"a", ",", " "}) \cup {NaNText}

\* a second listing next to the one whose cell varies
OtherRows ==
    { Row("QA", "Globex", "Sydney", "NSW", <<"5">>, <<"a", ",", " ", "a", " ", "a">>),
      Row("QA", "Globex", "Perth", "WA", NaNText, <<",", "a">>),
      Row("QA", "Globex", NaN, "WA", <<"x">>, <<"a">>) }

Around(row, others) ==
    {<<row>>} \cup {<<row, o>> : o \in others} \cup {<<o, row>> : o \in others}

----------------------------------------------------------------------------
(* The state machine *)

NoResponse == [cb |-> "none"]

Procs == 1..NProcs

\* the local variables of a call that has just begun: the arguments are
\* bound, the others hold nothing yet
FreshFrame(selected_states, selected_cities) ==
    [selected_states |-> selected_states, selected_cities |-> selected_cities,
     filtered_df |-> <<>>, exp_dist |-> ExpHistogram(<<>>), city_counts |-> {},
     state_counts |-> {}, company_counts |-> {}, pivot_treemap |-> {}]

NoFrame == FreshFrame(None, None)

\* fault: the variables of the callbacks are module-level, shared by all executions
FrameShared(p) == 1

\* the frame holding the local variables of execution p: every call has its own
Frame(p) == p

Local(p) == frame[Frame(p)]

InitRest ==
    /\ phase = "csv"
    /\ skills_map_df = {}
    /\ resp = NoResponse
    /\ request = [p \in Procs |-> NoResponse]
    /\ pc = [p \in Procs |-> "idle"]
    /\ frame = [p \in Procs |-> NoFrame]
    /\ response = [p \in Procs |-> NoResponse]

\* after pd.read_csv (line 14)
Init == df \in Tables(SampleRows, MaxRows) /\ InitRest

InitParse ==
    /\ \E e \in ExperienceCells :
          df \in Around(Row("Dev", "Acme", "Sydney", "NSW", e, <<"a", ",", "b">>),
                         {Row("QA", "Globex", "Perth", "WA", NaNText, <<",", "a">>)})
    /\ InitRest

InitPivot ==
    /\ \E ci \in {"Sydney", "Perth", NaN}, sk \in SkillsCells :
          df \in Around(Row("Dev", "Acme", ci, "NSW", <<"3">>, sk), OtherRows)
    /\ InitRest

\* the rest of the module body (lines 27-143): the derived column, the skill
\* map and the layout; a raise ends the process before the server starts
Load ==
    /\ phase = "csv"
    /\ df' = WithParsedExperience(df)
    /\ IF StartupOk(df)
       THEN phase' = "running" /\ skills_map_df' = SkillsMap(df')
       ELSE phase' = "crashed" /\ UNCHANGED skills_map_df
    /\ UNCHANGED <<resp, request, pc, frame, response>>

\* one run of the callback update_table (lines 151-157)
update_table(selected_states, selected_cities) ==
    /\ phase = "running"
    /\ resp' = [cb |-> "update_table",
                states |-> selected_states, cities |-> selected_cities,
                out |-> Returned(update_table_ret(df, selected_states, selected_cities))]
    /\ UNCHANGED <<phase, df, skills_map_df, request, pc, frame, response>>

\* fault: the callback rebinds the module-level df to its filtered table
update_visualizationsRebinding(selected_states, selected_cities) ==
    /\ phase = "running"
    /\ df' = Filtered(df, selected_states, selected_cities)
    /\ resp' = [cb |-> "update_visualizations",
                states |-> selected_states, cities |-> selected_cities,
                filtered_df |-> df',
                out |-> update_visualizations_ret(df, selected_states, selected_cities)]
    /\ UNCHANGED <<phase, skills_map_df, request, pc, frame, response>>

\* one run of the callback update_visualizations (lines 169-208); the
\* response records, next to the returned figures, the local filtered_df
update_visualizations(selected_states, selected_cities) ==
    /\ phase = "running"
    /\ resp' = [cb |-> "update_visualizations",
                states |-> selected_states, cities |-> selected_cities,
                filtered_df |-> Filtered(df, selected_states, selected_cities),
                out |-> update_visualizations_ret(df, selected_states, selected_cities)]
    /\ UNCHANGED <<phase, df, skills_map_df, request, pc, frame, response>>

Callbacks ==
    \E s \in StateSelections, c \in CitySelections :
        update_table(s, c) \/ update_visualizations(s, c)

Next == Load \/ Callbacks

Spec == Init /\ [][Next]_vars
SpecParse == InitParse /\ [][Next]_vars
SpecPivot == InitPivot /\ [][Next]_vars

----------------------------------------------------------------------------
(* Concurrent executions of the callbacks, one statement at a time *)

ConcTables ==
    { << Row("Dev", "Acme", "Sydney", "NSW", <<"3", "-", "5">>, <<"a", ",", " ", "b">>),
         Row("QA", "Globex", "Perth", "WA", <<"x">>, <<"b", ",", "a">>),
         Row("Dev", "Acme", "Perth", "NSW", NaNText, <<"a">>) >>,
      << Row("QA", "Globex", NaN, "WA", <<"5">>, NaNText),
         Row("Dev", "Acme", "Sydney", "NSW", <<"3">>, <<"b">>) >> }

\* the selections of the concurrent sessions
ConcSelections == { <<List(<<"NSW">>), None>>, <<List(<<"NSW", "WA">>), List(<<"Perth">>)>> }

InitConc == df \in ConcTables /\ InitRest

\* a filter-change event reaches the server: a new execution of cb begins
Call(p, cb, selected_states, selected_cities) ==
    /\ phase = "running"
    /\ pc[p] = "idle"
    /\ request' = [request EXCEPT
                      ![p] = [cb |-> cb, states |-> selected_states, cities |-> selected_cities]]
    /\ frame' = [frame EXCEPT ![Frame(p)] = FreshFrame(selected_states, selected_cities)]
    /\ pc' = [pc EXCEPT ![p] = IF cb = "update_table" THEN "t152" ELSE "v170"]
    /\ response' = [response EXCEPT ![p] = NoResponse]
    /\ UNCHANGED <<phase, df, skills_map_df, resp>>

\* execution p runs the assignment `name = value` at line `at` and goes on to `to`
Assign(p, at, name, value, to) ==
    /\ pc[p] = at
    /\ frame' = [frame EXCEPT ![Frame(p)][name] = value]
    /\ pc' = [pc EXCEPT ![p] = to]
    /\ UNCHANGED <<phase, df, skills_map_df, resp, request, response>>

\* execution p leaves the callback with outcome `out`
Leave(p, at, out) ==
    /\ pc[p] = at
    /\ response' = [response EXCEPT ![p] = [cb |-> request[p].cb, out |-> out]]
    /\ frame' = [frame EXCEPT ![Frame(p)] = NoFrame]
    /\ pc' = [pc EXCEPT ![p] = "idle"]
    /\ UNCHANGED <<phase, df, skills_map_df, resp, request>>

\* update_table, line by line
t152(p) == Assign(p, "t152", "filtered_df", copy(df), "t153")
t153(p) ==
    Assign(p, "t153", "filtered_df",
           FilterStep(Local(p).filtered_df, "State", Local(p).selected_states), "t155")
t155(p) ==
    Assign(p, "t155", "filtered_df",
           FilterStep(Local(p).filtered_df, "City", Local(p).selected_cities), "t157")
t157(p) == Leave(p, "t157", Returned(to_dict_records(Local(p).filtered_df)))

\* update_visualizations, line by line
v170(p) == Assign(p, "v170", "filtered_df", copy(df), "v171")
v171(p) ==
    Assign(p, "v171", "filtered_df",
           FilterStep(Local(p).filtered_df, "State", Local(p).selected_states), "v173")
v173(p) ==
    Assign(p, "v173", "filtered_df",
           FilterStep(Local(p).filtered_df, "City", Local(p).selected_cities), "v178")
v178(p) == Assign(p, "v178", "exp_dist", ExpHistogram(Local(p).filtered_df), "v182")
v182(p) == Assign(p, "v182", "city_counts", CountBy(Local(p).filtered_df, "City"), "v187")
v187(p) == Assign(p, "v187", "state_counts", CountBy(Local(p).filtered_df, "State"), "v192")
v192(p) ==
    Assign(p, "v192", "company_counts", CountBy(Local(p).filtered_df, "Company"), "v195")
v195(p) ==
    IF ObjectDtype(df, "Skills")
    THEN Assign(p, "v195", "pivot_treemap", SkillPivot(Local(p).filtered_df), "v208")
    ELSE Leave(p, "v195", Raised)
v208(p) ==
    Leave(p, "v208",
          Returned([exp_dist       |-> Local(p).exp_dist,
                    city_counts    |-> Local(p).city_counts,
                    state_counts   |-> Local(p).state_counts,
                    company_counts |-> Local(p).company_counts,
                    pivot_treemap  |-> Local(p).pivot_treemap]))

Calls ==
    \E p \in Procs, cb \in {"update_table", "update_visualizations"}, sel \in ConcSelections :
        Call(p, cb, sel[1], sel[2])

TableSteps == \E p \in Procs : t152(p) \/ t153(p) \/ t155(p) \/ t157(p)

VisSteps ==
    \E p \in Procs :
        \/ v170(p) \/ v171(p) \/ v173(p)
        \/ v178(p) \/ v182(p) \/ v187(p) \/ v192(p) \/ v195(p)
        \/ v208(p)

NextConc == Load \/ Calls \/ TableSteps \/ VisSteps

SpecConc == InitConc /\ [][NextConc]_vars

----------------------------------------------------------------------------
(* Properties *)

Items(sel) == {sel.items[k] : k \in 1..Len(sel.items)}

\* the rows a selection asks for
Matches(r, states, cities) ==
    /\ (states.isNone \/ states.items = <<>> \/ r.State \in Items(states))
    /\ (cities.isNone \/ cities.items = <<>> \/ r.City \in Items(cities))

Matching(d, states, cities) == SelectSeq(d, LAMBDA r : Matches(r, states, cities))

IsTable(r) == r.cb = "update_table"
IsVis(r) == r.cb = "update_visualizations"

\* C1: the filtered table of either callback holds exactly the rows of the
\* base table whose State is selected (or no state is selected) and whose
\* City is selected (or no city is selected); a call never raises for a
\* selected value that no row carries.
C1_FilterConjunctive ==
    /\ IsTable(resp) =>
          /\ ~resp.out.raised
          /\ resp.out.value = Matching(df, resp.states, resp.cities)
    /\ IsVis(resp) => resp.filtered_df = Matching(df, resp.states, resp.cities)

C1_Witness ==
    /\ IsTable(resp)
    /\ Truthy(resp.states) /\ Truthy(resp.cities)
    /\ \E v \in Items(resp.states) : \A i \in Rows(df) : df[i].State # v
    /\ resp.out.value # <<>>
    /\ Len(resp.out.value) < Len(df)

RECURSIVE SumCount(_)
SumCount(t) ==
    IF t = {} THEN 0
    ELSE LET r == CHOOSE x \in t : TRUE IN r.Count + SumCount(t \ {r})

\* C2 as stated: the counts of the city count table add up to the number
\* of rows of the filtered table.
C2_CountByCitySumsToAllRows ==
    (IsVis(resp) /\ ~resp.out.raised) =>
        SumCount(resp.out.value.city_counts) = Len(resp.filtered_df)

\* C2, amended: the counts of the city count table add up to the number of
\* rows of the filtered table whose City is present.
C2_CountByCitySumsToCityRows ==
    (IsVis(resp) /\ ~resp.out.raised) =>
        SumCount(resp.out.value.city_counts) =
            Cardinality({i \in Rows(resp.filtered_df) : resp.filtered_df[i].City # NaN})

C2_Witness ==
    /\ IsVis(resp) /\ ~resp.out.raised
    /\ \E i, j \in Rows(resp.filtered_df) :
          resp.filtered_df[i].City = NaN /\ resp.filtered_df[j].City # NaN
    /\ \E r \in resp.out.value.city_counts : r.Count = 1

\* what parse_experience is to return: the number in front of the first
\* hyphen, or the whole cell when it has no hyphen; absent when the cell is
\* missing or that text is no number
Numeric(a) == IF float(a).raised THEN NaNFloat ELSE float(a).value

ParsedAsClaimed(val, parsed) ==
    IF val = NaNText THEN parsed = NaNFloat
    ELSE \A k \in 0..Len(val) :
            ( /\ \A j \in 1..k : val[j] # "-"
              /\ (k = Len(val) \/ val[k + 1] = "-") )
            => parsed = Numeric(SubSeq(val, 1, k))

\* C3: loading gives every row the ParsedExperience that parse_experience
\* is to return for its Experience cell, and keeps every row, with its other
\* cells, whether or not the cell parses.
C3_ParsedExperience ==
    [][phase = "csv" =>
        /\ Len(df') = Len(df)
        /\ \A i \in Rows(df) :
              /\ \A c \in DOMAIN df[i] : df'[i][c] = df[i][c]
              /\ ParsedAsClaimed(df[i].Experience, df'[i].ParsedExperience)]_vars

C3_Witness ==
    /\ phase = "running"
    /\ Len(df) = 2
    /\ \E i \in Rows(df) :
          df[i].Experience = <<"3", "-", "5">> /\ df[i].ParsedExperience = Float(3)
    /\ \E i \in Rows(df) : df[i].ParsedExperience = NaNFloat

Spaces(n) == [k \in 1..n |-> " "]

\* t is u without its leading and trailing blanks
IsTrimOf(t, u) ==
    /\ t = <<>> \/ (t[1] # " " /\ t[Len(t)] # " ")
    /\ \E l \in 0..Len(u) : u = Spaces(l) \o t \o Spaces(Len(u) - Len(t) - l)

\* the places <<i, a, b>> where a skill token stands: row i has City and
\* Skills, and characters a..b of its Skills lie between two commas (or
\* the ends of the cell) and hold no comma
TokenPlaces(d) ==
    { x \in UNION { {<<i, a, b>> : a \in 1..(Len(d[i].Skills) + 1), b \in 0..Len(d[i].Skills)} :
                      i \in {j \in Rows(d) : d[j].City # NaN /\ d[j].Skills # NaNText} } :
        LET sk == d[x[1]].Skills
        IN  /\ x[2] <= x[3] + 1
            /\ (x[2] = 1 \/ sk[x[2] - 1] = ",")
            /\ (x[3] = Len(sk) \/ sk[x[3] + 1] = ",")
            /\ \A k \in x[2]..x[3] : sk[k] # "," }

TokenAt(d, x) == SubSeq(d[x[1]].Skills, x[2], x[3])

\* C4: the skill pivot has one row for each (City, trimmed token) pair that
\* occurs in a filtered row holding both City and Skills, and no other row;
\* its Count is the number of places where the token stands in the rows of
\* that city.
C4_SkillPivot ==
    (IsVis(resp) /\ ~resp.out.raised) =>
        LET pivot == resp.out.value.pivot_treemap
            places == TokenPlaces(resp.filtered_df)
        IN  /\ \A r1, r2 \in pivot :
                  (r1.City = r2.City /\ r1.Skills = r2.Skills) => r1 = r2
            /\ \A x \in places :
                  \E r \in pivot :
                      /\ r.City = resp.filtered_df[x[1]].City
                      /\ IsTrimOf(r.Skills, TokenAt(resp.filtered_df, x))
            /\ \A r \in pivot :
                  /\ r.Count >= 1
                  /\ r.Count =
                        Cardinality({x \in places :
                            /\ resp.filtered_df[x[1]].City = r.City
                            /\ IsTrimOf(r.Skills, TokenAt(resp.filtered_df, x))})

C4_Witness ==
    /\ IsVis(resp) /\ ~resp.out.raised
    /\ \E i \in Rows(resp.filtered_df) : resp.filtered_df[i].Skills = <<"a", " ", ",">>
    /\ \E r1, r2 \in resp.out.value.pivot_treemap :
          /\ r1.City = "Sydney" /\ r1.Skills = <<"a">> /\ r1.Count = 2
          /\ r2.City = "Sydney" /\ r2.Skills = <<>> /\ r2.Count = 1

NoneOrEmpty(sel) == sel.isNone \/ sel.items = <<>>

\* C5: with both selections None or empty either callback works on the whole
\* base table: same rows, same multiplicity, same order.
C5_NoSelectionKeepsAll ==
    /\ (IsTable(resp) /\ NoneOrEmpty(resp.states) /\ NoneOrEmpty(resp.cities)) =>
          resp.out.value = df
    /\ (IsVis(resp) /\ NoneOrEmpty(resp.states) /\ NoneOrEmpty(resp.cities)) =>
          resp.filtered_df = df

C5_Witness ==
    /\ IsTable(resp)
    /\ resp.states = List(<<>>) /\ resp.cities = None
    /\ Len(resp.out.value) = 2
    /\ resp.out.value[1] # resp.out.value[2]

NoRowMatches(r) == \A i \in Rows(df) : ~Matches(df[i], r.states, r.cities)

\* C6: when the selection matches no row, update_visualizations returns,
\* without raising, five empty aggregates, and update_table returns an empty
\* list of rows.
C6_EmptySelection ==
    /\ (IsVis(resp) /\ NoRowMatches(resp)) =>
          /\ ~resp.out.raised
          /\ resp.out.value.exp_dist.x = <<>>
          /\ resp.out.value.city_counts = {}
          /\ resp.out.value.state_counts = {}
          /\ resp.out.value.company_counts = {}
          /\ resp.out.value.pivot_treemap = {}
    /\ (IsTable(resp) /\ NoRowMatches(resp)) =>
          (~resp.out.raised /\ resp.out.value = <<>>)

C6_Witness ==
    /\ IsVis(resp) /\ NoRowMatches(resp)
    /\ Len(df) = 2
    /\ \E i \in Rows(df) : df[i].City # NaN /\ df[i].Skills # NaNText

\* C7: once the module body has run, no callback changes the base table
\* (ParsedExperience included) or the skill map table.
C7_BaseTableFrozen ==
    [][phase = "running" => (df' = df /\ skills_map_df' = skills_map_df)]_vars

C7_Witness ==
    /\ IsVis(resp)
    /\ Truthy(resp.cities)
    /\ Len(resp.filtered_df) < Len(df)
    /\ skills_map_df # {}
    /\ skills_map_df = SkillsMap(df)
    /\ skills_map_df # SkillsMap(resp.filtered_df)

\* what one execution alone returns for a request
Sequential(req) ==
    [cb |-> req.cb,
     out |-> IF req.cb = "update_table"
             THEN Returned(update_table_ret(df, req.states, req.cities))
             ELSE update_visualizations_ret(df, req.states, req.cities)]

\* C8: however the concurrent executions interleave, each returns what a
\* sequential execution with its own selection returns.
C8_ConcurrentAsSequential ==
    \A p \in Procs : response[p] # NoResponse => response[p] = Sequential(request[p])

C8_Witness ==
    \E p, q \in Procs :
        /\ p # q
        /\ response[p] # NoResponse /\ request[p].cb = "update_visualizations"
        /\ pc[q] = "t155" /\ request[q].states # request[p].states
        /\ frame[q].filtered_df # Filtered(df, request[p].states, None)

\* C9: filtering the rows update_table returned once more, with the same
\* selection, gives the same rows in the same order.
C9_FilterIdempotent ==
    IsTable(resp) =>
        Filtered(resp.out.value, resp.states, resp.cities) = resp.out.value

C9_Witness ==
    /\ IsTable(resp)
    /\ Truthy(resp.states) /\ resp.cities = None
    /\ Len(df) = 2 /\ Len(resp.out.value) = 1

\* C10: every record update_table returns carries the five fields Title,
\* Company, City, State and Experience, and no other.
C10_FiveColumns ==
    IsTable(resp) =>
        \A i \in Rows(resp.out.value) :
            DOMAIN resp.out.value[i] = {"Title", "Company", "City", "State", "Experience"}

=============================================================================
